---- MODULE Spec2Model ----
(***************************************************************************)
(* The Codex gRPC bridge (ext/grpc/src/bin/server.rs): main, run_server,   *)
(* the SocketCleanup guard, the admission semaphore and run_command with   *)
(* its child process and the three pipes between them; and, for what two   *)
(* runs on one socket path do to each other, a second run of run_server.   *)
(***************************************************************************)
EXTENDS Integers, Sequences, FiniteSets, TLC

\* ------------------------------------------------------------------ bounds
MaxCalls == 2        \* client calls of one server run
MaxLimit == 1        \* largest --concurrency-limit tried (0..MaxLimit, or none)
PipeCap == 1         \* bytes a pipe buffers before its writer blocks
MaxInput == 2        \* longest stdin payload of a request
MaxProg == 2         \* longest child program (reads, writes, close of stdin)

Calls == 1..MaxCalls

\* ------------------------------------------------------------- data model
\* Option<usize>: None is <<>>, Some(n) is <<n>>.
None == <<>>

Some(n) == <<n>>

\* What a child does, one operation at a time, before it exits:
\* "r" reads one byte of stdin (or sees end-of-input), "o" writes one byte to
\* stdout, "e" writes one byte to stderr, "c" closes its stdin.
Ops == {"r", "o", "e", "c"}

RECURSIVE ProgramsOfLen(_)
ProgramsOfLen(n) ==
    IF n = 0 THEN {<<>>}
    ELSE {Append(p, op) : p \in ProgramsOfLen(n - 1), op \in Ops}

AllPrograms == UNION {ProgramsOfLen(n) : n \in 0..MaxProg}

\* The k-th byte of a request's stdin payload, of the child's stdout, of its
\* stderr: all distinct, so a byte that is lost, repeated or moved shows.
InByte(k) == 20 + k

OutByte(k) == 40 + k

ErrByte(k) == 60 + k

Payload(n) == [k \in 1..n |-> InByte(k)]

\* std::process::ExitStatus: a normal exit code, or the signal that ended it.
ExitedWith(code) == [kind |-> "code", n |-> code]

SignalledBy(sig) == [kind |-> "signal", n |-> sig]

SIGPIPE == 13

SIGKILL == 9

\* An ExitStatus with neither a code nor a signal.
Undetermined == [kind |-> "unknown", n |-> 0]

\* How a program ends when it runs to its end: exit(0), exit(3), or killed.
OwnExits == {ExitedWith(0), ExitedWith(3), SignalledBy(SIGKILL)}

\* RunCommandRequest as far as the bridge and the child act on it: the program
\* the executable runs with these arguments, how it ends, the stdin payload.
AllRequests ==
    [prog : AllPrograms, exit : OwnExits, stdin : {Payload(n) : n \in 0..MaxInput}]

\* The requests of the concurrent workload: a child that reads its input and
\* writes to both streams, and one that never reads its input.
SimpleRequests ==
    { [prog |-> <<"r", "o">>, exit |-> ExitedWith(3), stdin |-> Payload(1)],
      [prog |-> <<"e">>, exit |-> SignalledBy(SIGKILL), stdin |-> Payload(1)] }

\* The request of a client that sends none.
NoRequest == [prog |-> <<>>, exit |-> ExitedWith(0), stdin |-> <<0>>]

VARIABLES
    concurrency_limit, \* Args::concurrency_limit
    workload,          \* the request each client call sends
    file,              \* what is at socket_path: "none", "stale", "sock", "other"
    mainPc,            \* main: "run_server", "await_signal_task", "exited"
    rsPc,              \* run_server: "mkdir", "remove", "bind", "serve", "drain", "returned"
    rsResult,          \* what run_server returned, "none" before
    exitResult,        \* what main returned, "none" before
    token,             \* shutdown_token is cancelled
    sigTask,           \* signal_task: "waiting" for ctrl_c, or "done"
    ignored,           \* a Ctrl-C came after signal_task had ended
    drops,             \* runs of SocketCleanup::drop so far
    permits,           \* free permits of the semaphore
    waitq,             \* calls suspended in acquire_owned, oldest first
    call,              \* each run_command call
    child,             \* each call's child process
    pipe,              \* each call's three pipes
    other              \* a second run of the server on the same socket_path

vars == <<concurrency_limit, workload, file, mainPc, rsPc, rsResult, exitResult,
          token, sigTask, ignored, drops, permits, waitq, call, child, pipe,
          other>>

server == <<file, mainPc, rsPc, rsResult, exitResult, token, sigTask, drops>>

config == <<concurrency_limit, workload>>

calls == <<permits, waitq, call, child, pipe>>

\* ------------------------------------------------------------------ Init
NewCall ==
    [pc |-> "idle", result |-> "none", holds |-> FALSE, written |-> 0,
     out |-> <<>>, err |-> <<>>, exit_code |-> 0]

NoChild == [st |-> "none", ip |-> 0, status |-> None]

\* inW: the bridge's write end of stdin; inR: the child's read end;
\* outR, errR: the bridge's read ends; the child's write ends are open
\* exactly while it runs.
NoPipes ==
    [in |-> <<>>, out |-> <<>>, err |-> <<>>,
     inW |-> FALSE, inR |-> FALSE, outR |-> FALSE, errR |-> FALSE]

Limits == {None} \cup {Some(n) : n \in 0..MaxLimit}

InitServer ==
    /\ concurrency_limit \in Limits
    /\ file \in {"none", "stale"}
    /\ mainPc = "run_server"
    /\ rsPc = "mkdir"
    /\ rsResult = "none"
    /\ exitResult = "none"
    /\ token = FALSE
    /\ sigTask = "waiting"
    /\ ignored = FALSE
    /\ drops = 0
    /\ permits = 0
    /\ waitq = <<>>
    /\ call = [c \in Calls |-> NewCall]
    /\ child = [c \in Calls |-> NoChild]
    /\ pipe = [c \in Calls |-> NoPipes]
    /\ other = "off"

\* Several concurrent calls, every client sending the same simple request.
Init ==
    /\ InitServer
    /\ \E r \in SimpleRequests : workload = [c \in Calls |-> r]

\* One call, of any child program and any payload.
PipeInit ==
    /\ InitServer
    /\ \E r \in AllRequests : workload = [c \in Calls |-> IF c = 1 THEN r ELSE NoRequest]

\* ------------------------------------------------- the admission semaphore
Limited == concurrency_limit # None

InFlight(c) == call[c].pc \in {"acquire", "admitted", "write", "join"}

\* A faulty acquire: it also succeeds when no permit is free.
TryAcquireOffByOne == permits >= 0

\* Semaphore::acquire_owned, polled: a free permit is taken at once.
TryAcquire == permits > 0

\* OwnedSemaphorePermit::drop: the permit goes to the oldest waiter, which
\* resumes after its acquire_owned().await, or back to the semaphore.
Heir(c) == IF call[c].holds /\ waitq # <<>> THEN Head(waitq) ELSE 0

\* A faulty return: the permit is forgotten instead of dropped.
ReleasedToNobody(c) == permits

\* The free permits after the call's permit, if it holds one, is dropped.
ReleasedTo(c) == IF call[c].holds /\ Heir(c) = 0 THEN permits + 1 ELSE permits

\* The bridge's ends of a call's pipes are closed when its Child and the
\* read_stream futures are dropped; what the pipes hold for it is discarded.
Dropped(p) ==
    [p EXCEPT !.inW = FALSE, !.outR = FALSE, !.errR = FALSE,
              !.out = <<>>, !.err = <<>>]

\* run_command returns res (with the response's fields when it is "ok"): on
\* every path _permit is dropped as the function's scope ends.
Finish(c, res, code, out, err) ==
    /\ call' = [x \in Calls |->
                  IF x = c
                  THEN [call[c] EXCEPT !.pc = "done", !.result = res,
                                       !.holds = FALSE, !.exit_code = code,
                                       !.written = 0, !.out = out, !.err = err]
                  ELSE IF x = Heir(c)
                  THEN [call[x] EXCEPT !.pc = "admitted", !.holds = TRUE]
                  ELSE call[x]]
    /\ waitq' = IF Heir(c) # 0 THEN Tail(waitq) ELSE waitq
    /\ permits' = ReleasedTo(c)
    /\ pipe' = [pipe EXCEPT ![c] = Dropped(@)]

\* ---------------------------------------------------------------- main
Accepting == rsPc = "serve"

\* A faulty drop: the guard goes without removing the file.
SocketCleanup_dropWithoutRemove ==
    /\ file' = file
    /\ drops' = drops + 1

\* SocketCleanup::drop: remove_file, its result ignored.
SocketCleanup_drop ==
    /\ file' = "none"
    /\ drops' = drops + 1

\* A faulty return: the guard is leaked, so its drop never runs.
ReturnLeakingGuard(res, guarded) ==
    /\ rsPc' = "returned"
    /\ rsResult' = res
    /\ UNCHANGED <<file, drops>>

\* run_server returns res; _cleanup, when it was created, is dropped.
Return(res, guarded) ==
    /\ rsPc' = "returned"
    /\ rsResult' = res
    /\ IF guarded THEN SocketCleanup_drop ELSE UNCHANGED <<file, drops>>

\* fs::create_dir_all(parent), then the socket_path.exists() test. It fails
\* only when the parent is missing or unreachable, so nothing is seen at the path.
CreateDirAll ==
    /\ rsPc = "mkdir"
    /\ \/ /\ rsPc' = IF file # "none" THEN "remove" ELSE "bind"
          /\ UNCHANGED <<file, rsResult, drops>>
       \/ /\ file = "none"
          /\ Return("err_mkdir", FALSE)
    /\ UNCHANGED <<mainPc, exitResult, token, sigTask, ignored, config, other, calls>>

\* A faulty startup: the file found at the path is left where it is.
RemoveStaleLeavesFile ==
    /\ rsPc = "remove"
    /\ rsPc' = "bind"
    /\ UNCHANGED <<file, rsResult, drops>>
    /\ UNCHANGED <<mainPc, exitResult, token, sigTask, ignored, config, other, calls>>

\* fs::remove_file of the file found at the path, whatever it is; it fails
\* when the file is gone by now or may not be removed.
RemoveStale ==
    /\ rsPc = "remove"
    /\ \/ /\ file # "none"
          /\ file' = "none"
          /\ rsPc' = "bind"
          /\ UNCHANGED <<rsResult, drops>>
       \/ Return("err_remove", FALSE)
    /\ UNCHANGED <<mainPc, exitResult, token, sigTask, ignored, config, other, calls>>

\* A faulty serve: it starts accepting whatever the token says.
ServeStateIgnoringToken == "serve"

\* With a token already cancelled serve_with_incoming_shutdown accepts nothing.
ServeState == IF token THEN "drain" ELSE "serve"

\* UnixListener::bind, SocketCleanup::new, CodexCliService::new and the start
\* of serve_with_incoming_shutdown. bind(2) creates the socket file and fails
\* (address in use, permission denied) when it cannot.
Bind ==
    /\ rsPc = "bind"
    /\ \/ /\ file = "none"
          /\ file' = "sock"
          /\ rsPc' = ServeState
          /\ permits' = IF Limited THEN concurrency_limit[1] ELSE 0
          /\ UNCHANGED <<rsResult, drops>>
       \/ /\ Return("err_bind", FALSE)
          /\ UNCHANGED permits
    /\ UNCHANGED <<mainPc, exitResult, token, sigTask, ignored, config, other,
                   waitq, call, child, pipe>>

\* The cancelled token ends the accept loop; calls in flight go on.
OnCancel == IF rsPc = "serve" THEN "drain" ELSE rsPc

\* Ctrl-C: the first one wakes signal_task, which cancels the token and ends;
\* a later one finds nobody waiting for it.
Interrupt ==
    /\ mainPc # "exited"
    /\ IF sigTask = "waiting"
       THEN /\ sigTask' = "done"
            /\ token' = TRUE
            /\ rsPc' = OnCancel
            /\ UNCHANGED ignored
       ELSE /\ ignored' = TRUE
            /\ UNCHANGED <<sigTask, token, rsPc>>
    /\ UNCHANGED <<file, mainPc, rsResult, exitResult, drops, config, other, calls>>

\* The incoming stream fails: serve_with_incoming_shutdown returns the error.
\* The calls in flight are tasks of their own and go on.
ServeError ==
    /\ rsPc = "serve"
    /\ Return("err_serve", TRUE)
    /\ UNCHANGED <<mainPc, exitResult, token, sigTask, ignored, config, other, calls>>

\* A faulty shutdown: it does not wait for the calls in flight.
DrainedAtOnce == TRUE

\* Graceful shutdown ends once every call in flight has returned.
Drained == \A c \in Calls : ~InFlight(c)

DrainDone ==
    /\ rsPc = "drain"
    /\ Drained
    /\ Return("ok", TRUE)
    /\ UNCHANGED <<mainPc, exitResult, token, sigTask, ignored, config, other, calls>>

\* main after run_server: shutdown_token.cancel().
MainCancel ==
    /\ mainPc = "run_server"
    /\ rsPc = "returned"
    /\ token' = TRUE
    /\ mainPc' = "await_signal_task"
    /\ UNCHANGED <<file, rsPc, rsResult, exitResult, sigTask, ignored, drops,
                   config, other, calls>>

\* signal_task has ended: main's join of it can return.
SignalTaskJoined == sigTask = "done"

\* main: signal_task.await, then result. The runtime is dropped with main: the
\* calls still in flight are dropped where they are; no child is killed.
MainExit ==
    /\ mainPc = "await_signal_task"
    /\ SignalTaskJoined
    /\ mainPc' = "exited"
    /\ exitResult' = rsResult
    /\ call' = [c \in Calls |->
                  IF InFlight(c)
                  THEN [call[c] EXCEPT !.pc = "aborted", !.holds = FALSE,
                                       !.written = 0,
                                       !.out = <<>>, !.err = <<>>]
                  ELSE call[c]]
    /\ pipe' = [c \in Calls |-> IF InFlight(c) THEN Dropped(pipe[c]) ELSE pipe[c]]
    /\ waitq' = <<>>
    /\ permits' = permits + Cardinality({c \in Calls : call[c].holds})
    /\ UNCHANGED <<file, rsPc, rsResult, token, sigTask, ignored, drops,
                   config, other, child>>

\* ----------------------------------------------------------- run_command
Min(a, b) == IF a < b THEN a ELSE b

Request(c) == workload[c]

\* A call arrives on an accepted connection and polls acquire_owned. Calls are
\* numbered in the order they arrive.
CallArrive(c) ==
    /\ Accepting
    /\ call[c].pc = "idle"
    /\ Request(c) # NoRequest
    /\ \A d \in Calls : d < c => call[d].pc # "idle"
    /\ IF ~Limited
       THEN /\ call' = [call EXCEPT ![c].pc = "admitted"]
            /\ UNCHANGED <<permits, waitq>>
       ELSE IF TryAcquire
       THEN /\ call' = [call EXCEPT ![c].pc = "admitted", ![c].holds = TRUE]
            /\ permits' = permits - 1
            /\ UNCHANGED waitq
       ELSE /\ call' = [call EXCEPT ![c].pc = "acquire"]
            /\ waitq' = Append(waitq, c)
            /\ UNCHANGED permits
    /\ UNCHANGED <<server, ignored, config, other, child, pipe>>

\* A faulty order: the executable is resolved only after the spawn.
ResolveAfterSpawn(c) ==
    /\ call[c].pc = "write"
    /\ Finish(c, "err_resolve", 0, <<>>, <<>>)
    /\ UNCHANGED <<server, ignored, config, other, child>>

\* resolve_cli_path fails: std::env::current_exe gave an error.
ResolveFail(c) ==
    /\ call[c].pc = "admitted"
    /\ Finish(c, "err_resolve", 0, <<>>, <<>>)
    /\ UNCHANGED <<server, ignored, config, other, child>>

\* command.spawn() fails.
SpawnFail(c) ==
    /\ call[c].pc = "admitted"
    /\ Finish(c, "err_spawn", 0, <<>>, <<>>)
    /\ UNCHANGED <<server, ignored, config, other, child>>

\* A faulty order: the child is spawned while the call still waits for a slot.
SpawnBeforeAcquire(c) ==
    /\ call[c].pc = "acquire"
    /\ child' = [child EXCEPT ![c] = [st |-> "running", ip |-> 1, status |-> None]]
    /\ UNCHANGED <<server, ignored, config, other, permits, waitq, call, pipe>>

\* command.spawn() with three pipes: the child runs from here on.
Spawn(c) ==
    /\ call[c].pc = "admitted"
    /\ call' = [call EXCEPT ![c].pc = "write"]
    /\ child' = [child EXCEPT ![c] = [st |-> "running", ip |-> 1, status |-> None]]
    /\ pipe' = [pipe EXCEPT ![c] = [NoPipes EXCEPT !.inW = TRUE, !.inR = TRUE,
                                                   !.outR = TRUE, !.errR = TRUE]]
    /\ UNCHANGED <<server, ignored, config, other, permits, waitq>>

Remaining(c) == Len(Request(c).stdin) - call[c].written

\* stdin.write_all: one write of what the pipe takes; EPIPE once the child has
\* closed its end; suspended while the pipe is full.
WriteStdin(c) ==
    /\ call[c].pc = "write"
    /\ Remaining(c) > 0
    /\ IF ~pipe[c].inR
       THEN /\ Finish(c, "err_write", 0, <<>>, <<>>)
       ELSE /\ Len(pipe[c].in) < PipeCap
            /\ LET k == Min(PipeCap - Len(pipe[c].in), Remaining(c))
                   w == call[c].written
               IN /\ pipe' = [pipe EXCEPT ![c].in =
                                @ \o SubSeq(Request(c).stdin, w + 1, w + k)]
                  /\ call' = [call EXCEPT ![c].written = w + k]
            /\ UNCHANGED <<permits, waitq>>
    /\ UNCHANGED <<server, ignored, config, other, child>>

\* A faulty close: stdin is closed and the join begun with bytes unwritten.
CloseStdinEarly(c) ==
    /\ call[c].pc = "write"
    /\ call' = [call EXCEPT ![c].pc = "join"]
    /\ pipe' = [pipe EXCEPT ![c].inW = FALSE]
    /\ UNCHANGED <<permits, waitq>>
    /\ UNCHANGED <<server, ignored, config, other, child>>

\* stdin.shutdown() and the drop of stdin, which closes the pipe; or the
\* shutdown reports an error.
CloseStdin(c) ==
    /\ call[c].pc = "write"
    /\ Remaining(c) = 0
    /\ \/ /\ call' = [call EXCEPT ![c].pc = "join"]
          /\ pipe' = [pipe EXCEPT ![c].inW = FALSE]
          /\ UNCHANGED <<permits, waitq>>
       \/ Finish(c, "err_flush", 0, <<>>, <<>>)
    /\ UNCHANGED <<server, ignored, config, other, child>>

\* The child's write ends are open exactly while it runs.
WriterOpen(c) == child[c].st = "running"

\* read_stream: read_to_end has taken what the pipe held.
ReadToEnd(buffer, held) == buffer \o held

\* read_to_end is at end-of-file: the pipe is drained and has no writer.
StreamsReady(c) == ~WriterOpen(c)

\* child.wait() is ready: the child has exited.
WaitReady(c) == child[c].st = "exited"

\* A faulty exit code: the signal number itself.
exit_code_plain_signal(status) ==
    IF status.kind = "code" THEN status.n
    ELSE IF status.kind = "signal" THEN status.n
    ELSE -1

\* exit_code: status.code() if there is one, else 128 + status.signal() if
\* there is one, else -1.
exit_code(status) ==
    IF status.kind = "code" THEN status.n
    ELSE IF status.kind = "signal" THEN 128 + status.n
    ELSE -1

\* One poll of try_join!(stdout_future, stderr_future, wait_future): both
\* streams are read as far as they go; with all three ready the response is
\* built and returned.
JoinPoll(c) ==
    /\ call[c].pc = "join"
    /\ LET out == ReadToEnd(call[c].out, pipe[c].out)
           err == ReadToEnd(call[c].err, pipe[c].err)
       IN IF StreamsReady(c) /\ WaitReady(c)
          THEN Finish(c, "ok", exit_code(child[c].status[1]), out, err)
          ELSE /\ pipe[c].out # <<>> \/ pipe[c].err # <<>>
               /\ call' = [call EXCEPT ![c].out = out, ![c].err = err]
               /\ pipe' = [pipe EXCEPT ![c].out = <<>>, ![c].err = <<>>]
               /\ UNCHANGED <<permits, waitq>>
    /\ UNCHANGED <<server, ignored, config, other, child>>

\* read_to_end fails on one of the streams: try_join! returns that error at
\* once and drops the other two futures.
ReadFail(c) ==
    /\ call[c].pc = "join"
    /\ Finish(c, "err_read", 0, <<>>, <<>>)
    /\ UNCHANGED <<server, ignored, config, other, child>>

\* child.wait() fails.
WaitFail(c) ==
    /\ call[c].pc = "join"
    /\ Finish(c, "err_wait", 0, <<>>, <<>>)
    /\ UNCHANGED <<server, ignored, config, other, child>>

\* ------------------------------------------------------------- the child
Prog(c) == Request(c).prog

\* How many of the child's first n operations are op.
RECURSIVE Count(_, _, _)
Count(p, n, op) ==
    IF n = 0 THEN 0
    ELSE Count(p, n - 1, op) + (IF p[n] = op THEN 1 ELSE 0)

\* What the child has written so far: its completed "o" and "e" operations.
WroteOut(c) == [k \in 1..Count(Prog(c), child[c].ip - 1, "o") |-> OutByte(k)]

WroteErr(c) == [k \in 1..Count(Prog(c), child[c].ip - 1, "e") |-> ErrByte(k)]

\* The child ends: its ends of the pipes close, unread input is discarded.
ChildEnds(c, status) ==
    /\ child' = [child EXCEPT ![c].st = "exited", ![c].status = Some(status)]
    /\ pipe' = [pipe EXCEPT ![c].inR = FALSE, ![c].in = <<>>]

Advance(c) == child' = [child EXCEPT ![c].ip = @ + 1]

ChildRead(c) ==
    /\ IF ~pipe[c].inR
       THEN UNCHANGED pipe
       ELSE IF pipe[c].in # <<>>
       THEN pipe' = [pipe EXCEPT ![c].in = Tail(@)]
       ELSE /\ ~pipe[c].inW
            /\ UNCHANGED pipe
    /\ Advance(c)

\* A write to a pipe nobody reads any more raises SIGPIPE; to a full pipe it
\* blocks.
ChildWriteOut(c) ==
    IF ~pipe[c].outR
    THEN ChildEnds(c, SignalledBy(SIGPIPE))
    ELSE /\ Len(pipe[c].out) < PipeCap
         /\ pipe' = [pipe EXCEPT ![c].out =
                       Append(@, OutByte(Count(Prog(c), child[c].ip, "o")))]
         /\ Advance(c)

ChildWriteErr(c) ==
    IF ~pipe[c].errR
    THEN ChildEnds(c, SignalledBy(SIGPIPE))
    ELSE /\ Len(pipe[c].err) < PipeCap
         /\ pipe' = [pipe EXCEPT ![c].err =
                       Append(@, ErrByte(Count(Prog(c), child[c].ip, "e")))]
         /\ Advance(c)

ChildCloseStdin(c) ==
    /\ pipe' = [pipe EXCEPT ![c].inR = FALSE, ![c].in = <<>>]
    /\ Advance(c)

\* One operation of the child's program, or its exit at the program's end.
ChildStep(c) ==
    /\ child[c].st = "running"
    /\ IF child[c].ip > Len(Prog(c))
       THEN ChildEnds(c, Request(c).exit)
       ELSE LET op == Prog(c)[child[c].ip]
            IN CASE op = "r" -> ChildRead(c)
                 [] op = "o" -> ChildWriteOut(c)
                 [] op = "e" -> ChildWriteErr(c)
                 [] op = "c" -> ChildCloseStdin(c)
    /\ UNCHANGED <<server, ignored, config, other, permits, waitq, call>>

\* ------------------------------------- a second run on the same socket_path
\* The other run as far as it touches the path: run_server's create_dir_all
\* and exists() test, its remove_file, its bind and, after it has served, its
\* return with the drop of its own SocketCleanup.
thisRun == <<mainPc, rsPc, rsResult, exitResult, token, sigTask, ignored, drops,
             config, calls>>

Other_CreateDirAll ==
    /\ other = "off"
    /\ other' = IF file # "none" THEN "remove" ELSE "bind"
    /\ UNCHANGED <<file, thisRun>>

Other_RemoveStale ==
    /\ other = "remove"
    /\ IF file # "none"
       THEN /\ file' = "none"
            /\ other' = "bind"
       ELSE /\ other' = "returned"
            /\ UNCHANGED file
    /\ UNCHANGED thisRun

Other_Bind ==
    /\ other = "bind"
    /\ IF file = "none"
       THEN /\ file' = "other"
            /\ other' = "serve"
       ELSE /\ other' = "returned"
            /\ UNCHANGED file
    /\ UNCHANGED thisRun

Other_Return ==
    /\ other = "serve"
    /\ other' = "returned"
    /\ file' = "none"
    /\ UNCHANGED thisRun

\* ------------------------------------------------------------------ Next
CallStep(c) ==
    \/ CallArrive(c)
    \/ ResolveFail(c)
    \/ SpawnFail(c)
    \/ Spawn(c)
    \/ WriteStdin(c)
    \/ CloseStdin(c)
    \/ JoinPoll(c)
    \/ ReadFail(c)
    \/ WaitFail(c)

Next ==
    \/ CreateDirAll
    \/ RemoveStale
    \/ Bind
    \/ Interrupt
    \/ ServeError
    \/ DrainDone
    \/ MainCancel
    \/ MainExit
    \/ \E c \in Calls : CallStep(c)
    \/ \E c \in Calls : ChildStep(c)

\* Concurrent calls of simple children.
Spec == Init /\ [][Next]_vars

\* One call of any child program.
PipeSpec == PipeInit /\ [][Next]_vars

\* The scheduling the program runs under: the runtime polls every task that
\* can go on (a call at its spawn, stdin write, close or join; run_server;
\* main), and the host runs every child that can take a step. Nothing is
\* assumed of the clients, of Ctrl-C or of the host's faults.
CallRuns(c) == Spawn(c) \/ WriteStdin(c) \/ CloseStdin(c) \/ JoinPoll(c)

ServerRuns == CreateDirAll \/ RemoveStale \/ Bind \/ DrainDone \/ MainCancel \/ MainExit

Fairness ==
    /\ WF_vars(ServerRuns)
    /\ \A c \in Calls : WF_vars(CallRuns(c))
    /\ \A c \in Calls : WF_vars(ChildStep(c))

FairSpec == Init /\ [][Next]_vars /\ Fairness

\* One call of a simple child, while a second run of the server starts and
\* ends on the same socket_path.
TwoInit ==
    /\ InitServer
    /\ \E r \in SimpleRequests : workload = [c \in Calls |-> IF c = 1 THEN r ELSE NoRequest]

TwoNext ==
    \/ Next
    \/ Other_CreateDirAll
    \/ Other_RemoveStale
    \/ Other_Bind
    \/ Other_Return

TwoSpec == TwoInit /\ [][TwoNext]_vars

\* ---------------------------------------------------------------- claims
\* The calls that have passed admission and not yet returned.
Admitted == {c \in Calls : call[c].pc \in {"admitted", "write", "join"}}

Limit == concurrency_limit[1]

\* The semaphore exists: CodexCliService::new has run.
ServiceBuilt ==
    \/ rsPc \in {"serve", "drain"}
    \/ rsPc = "returned" /\ rsResult \in {"ok", "err_serve"}

\* C1: with a limit N configured, at most N calls have passed admission and
\* not yet returned, in every reachable state.
C1_AdmissionBound == Limited => Cardinality(Admitted) <= Limit

\* C1 witness: N >= 1 calls are admitted and another one waits for a slot.
C1_AtTheLimit ==
    /\ Limited
    /\ Limit >= 1
    /\ Cardinality(Admitted) = Limit
    /\ waitq # <<>>

\* C2: once the token is cancelled, a call suspended in acquire is never
\* granted a slot: it fails with "unavailable" (or is still about to).
C2_NoGrantAfterShutdown ==
    [][\A c \in Calls :
         (token /\ call[c].pc = "acquire") =>
             \/ call'[c].pc = "acquire"
             \/ call'[c].pc = "aborted"
             \/ call'[c].pc = "done" /\ call'[c].result = "unavailable"]_vars

\* What moves a spawned call or its child forward, I/O faults aside.
Progress(c) == WriteStdin(c) \/ CloseStdin(c) \/ JoinPoll(c) \/ ChildStep(c)

\* C3: a call that has spawned its child and not returned is never stuck on
\* the pipes: the call or its child can always take a step.
C3_NoPipeDeadlock ==
    \A c \in Calls : call[c].pc \in {"write", "join"} => ENABLED Progress(c)

\* The request was valid and no I/O fault of the host hit the call.
Faultless(c) ==
    call[c].result \notin {"err_resolve", "err_spawn", "err_flush", "err_read", "err_wait"}

\* C4: every valid request, a child that does not read its whole input
\* included, is answered with exactly the bytes its child wrote to stdout and
\* to stderr.
C4_OutputFaithful ==
    \A c \in Calls :
        (call[c].pc = "done" /\ Faultless(c)) =>
            /\ call[c].result = "ok"
            /\ call[c].out = WroteOut(c)
            /\ call[c].err = WroteErr(c)

\* C5: the permit is held from admission until the call returns and is then
\* released, once, on every path: free and held permits always add up to N,
\* and with no call in flight all N are free.
C5_PermitReleased ==
    (Limited /\ ServiceBuilt) =>
        /\ permits + Cardinality({c \in Calls : call[c].holds}) = Limit
        /\ \A c \in Calls : call[c].holds <=> c \in Admitted
        /\ (\A c \in Calls : ~InFlight(c)) => permits = Limit

\* C5 witness: calls have ended on an error path and on the success path, and
\* every permit is free again.
C5_ReleasedAfterError ==
    /\ Limited
    /\ Limit >= 1
    /\ permits = Limit
    /\ \E c \in Calls : call[c].pc = "done" /\ call[c].result = "err_write"
    /\ \E c \in Calls : call[c].pc = "done" /\ call[c].result = "ok"

Phase ==
    CASE rsPc = "serve" -> 1
      [] rsPc = "drain" -> 2
      [] rsPc = "returned" -> 3
      [] OTHER -> 0

\* A step that delivers a shutdown trigger: a Ctrl-C or main's own cancel().
Trigger ==
    \/ ignored' # ignored
    \/ sigTask' # sigTask
    \/ mainPc = "run_server" /\ mainPc' = "await_signal_task"

\* C7: the lifecycle never moves backwards, a cancelled token stays cancelled
\* and the server never accepts under it, and a trigger that finds the token
\* cancelled changes nothing of the server, the socket file or the calls and
\* runs no second socket removal.
C7_OneWayShutdown ==
    [][/\ Phase' >= Phase
       /\ token => (token' /\ ~Accepting')
       /\ drops' <= 1
       /\ (token /\ Trigger) =>
              UNCHANGED <<token, rsPc, rsResult, exitResult, file, drops, calls>>]_vars

\* C7 witness: a second Ctrl-C has come while the server was shutting down.
C7_SecondTrigger == ignored /\ token /\ rsPc = "drain"

\* C8: once run_server has returned, main can go on to exit, whether or not
\* a Ctrl-C has been delivered.
C8_ExitsAfterReturn ==
    (rsPc = "returned" /\ mainPc # "exited") => ENABLED (MainCancel \/ MainExit)

\* C9 as stated: the socket file is there exactly while the server accepts.
C9_FileIffAccepting == (file = "sock") <=> Accepting

\* C9 amended: the socket file is there from the bind until run_server
\* returns, while the listener accepts and while the calls in flight drain,
\* and is gone once run_server has returned.
C9_FileWhileBound ==
    /\ (file = "sock") <=> rsPc \in {"serve", "drain"}
    /\ (rsPc = "returned" /\ ServiceBuilt) => file = "none"

\* C9 witness: the listener has stopped accepting, a call still drains, and
\* the socket file is still there.
C9_FileWhileDraining ==
    /\ rsPc = "drain"
    /\ file = "sock"
    /\ \E c \in Calls : InFlight(c)

\* C10 as stated, its first part: whatever way run_server returns, a setup
\* error at the stale file's removal included, no file is left at the path.
C10_NoFileOnAnyExit == rsPc = "returned" => file = "none"

\* C10 amended: after a successful bind run_server leaves no file and has run
\* the scope-exit removal exactly once; on a setup error it returns before the
\* guard exists, runs no removal, and a file it failed to remove stays.
C10_RemovedOncePerBind ==
    /\ drops <= 1
    /\ rsPc = "returned" =>
          IF ServiceBuilt
          THEN file = "none" /\ drops = 1
          ELSE /\ drops = 0
               /\ (rsResult = "err_remove") <=> (file = "stale")
    /\ rsPc # "returned" => drops = 0

\* C10 witness: run_server has returned after a failed removal of the stale
\* file, which is still there.
C10_StaleFileLeft ==
    /\ rsPc = "returned"
    /\ rsResult = "err_remove"
    /\ file = "stale"
    /\ drops = 0

\* C11: at no time are two live runs of the server both bound to the same
\* socket path: a run that finds the path in use by the other's live listener
\* fails at its bind and leaves the other's socket file in place.
C11_NeverTwoBound == ~(rsPc \in {"serve", "drain"} /\ other = "serve")

\* The removal of the file found at the path succeeds.
RemoveOk == RemoveStale /\ rsPc' = "bind" /\ file' = "none"

\* The bind succeeds and the server serves on the path, no error reported.
BindOk ==
    Bind /\ rsPc' \in {"serve", "drain"} /\ file' = "sock" /\ rsResult' = "none"

\* C12: with no other run on the path, a file found at startup (the parent
\* directories are there by then) is never what the bind meets: startup can
\* remove it, the bind is then made on a free path with no error reported and
\* can succeed, and the server then serves on its own new socket file.
C12_StaleFileReplaced ==
    /\ rsPc = "remove" => (file = "stale" /\ rsResult = "none" /\ ENABLED RemoveOk)
    /\ rsPc = "bind" => (file = "none" /\ rsResult = "none" /\ ENABLED BindOk)
    /\ rsPc \in {"serve", "drain"} => (file = "sock" /\ rsResult = "none")

\* C12 witness: startup has created the parent directories and found the file
\* of a previous run, which it can remove.
C12_StaleFileFound ==
    /\ rsPc = "remove"
    /\ file = "stale"
    /\ other = "off"
    /\ ENABLED RemoveOk

\* C13: a request has at most one child: a child is started only by the step
\* that takes its call from admission to the stdin write, and once started it
\* is never started again or replaced; a call that returns a response has its
\* one child, ended; a call that has not passed admission, or that returns
\* because the executable could not be resolved or spawned, has none.
C13_OneChildPerRequest ==
    [][\A c \in Calls :
         /\ (child[c].st = "none" /\ child'[c].st # "none") =>
                (call[c].pc = "admitted" /\ call'[c].pc = "write")
         /\ child[c].st # "none" =>
                /\ child'[c].st # "none"
                /\ child'[c].ip >= child[c].ip
                /\ child[c].st = "exited" => child'[c] = child[c]
         /\ call'[c].pc \in {"idle", "acquire", "admitted"} => child'[c] = NoChild
         /\ (call'[c].pc = "done" /\ call'[c].result = "ok") => child'[c].st = "exited"
         /\ (call'[c].pc = "done" /\ call'[c].result \in {"unavailable", "err_resolve", "err_spawn"})
                => child'[c] = NoChild]_vars

\* C13 witness: one call has returned a response, its one child ended, and
\* another has failed at the resolution of the executable with no child.
C13_OneAndNone ==
    \E c, d \in Calls :
        /\ call[c].pc = "done" /\ call[c].result = "ok" /\ child[c].st = "exited"
        /\ call[d].pc = "done" /\ call[d].result = "err_resolve" /\ child[d] = NoChild

\* C14: with a limit configured, a child is started only by a call that holds
\* a slot at that step and has held it since its admission, and every call at
\* its stdin write or its join holds one; with limit 1 a call's child is not
\* started while another call still holds the slot.
C14_SlotBeforeSpawn ==
    [][Limited =>
         \A c \in Calls :
             /\ (child[c].st = "none" /\ child'[c].st # "none") =>
                    /\ call[c].holds /\ call'[c].holds
                    /\ Limit = 1 => \A d \in Calls \ {c} : ~call[d].holds
             /\ call'[c].pc \in {"write", "join"} => call'[c].holds
             /\ call'[c].pc \in {"idle", "acquire"} => (~call'[c].holds /\ child'[c] = NoChild)]_vars

\* C14 witness: the limit is 1, the first call is at its join with its child
\* running, and the second call waits for the slot with no child.
C14_SecondWaits ==
    /\ Limited
    /\ Limit = 1
    /\ \E c, d \in Calls :
          /\ call[c].pc = "join" /\ call[c].holds /\ child[c].st = "running"
          /\ call[d].pc = "acquire" /\ child[d] = NoChild

\* C15: whatever limit the server was started with, a caller suspended in
\* acquire does not stay there for ever: it is granted a slot or its call ends.
C15_WaiterServed ==
    \A c \in Calls : (call[c].pc = "acquire") ~> (call[c].pc # "acquire")

\* Every ExitStatus the function may be given.
AllStatuses == OwnExits \cup {SignalledBy(SIGPIPE), Undetermined}

\* C16: the exit code of a response is the child's own code when it exited,
\* 128 plus the signal number when a signal ended it (3 gives 3, signal 9
\* gives 137), and -1 exactly for a status with neither.
C16_ExitCode ==
    /\ \A c \in Calls :
          (call[c].pc = "done" /\ call[c].result = "ok") =>
              LET s == child[c].status[1]
              IN /\ s \in AllStatuses
                 /\ s.kind = "code" => call[c].exit_code = s.n
                 /\ s.kind = "signal" => call[c].exit_code = 128 + s.n
                 /\ s = ExitedWith(3) => call[c].exit_code = 3
                 /\ s = SignalledBy(9) => call[c].exit_code = 137
                 /\ call[c].exit_code # -1
    /\ \A s \in AllStatuses : (exit_code(s) = -1) <=> (s.kind \notin {"code", "signal"})
    /\ exit_code(Undetermined) = -1

\* C16 witness: a child killed by signal 9 has been reported with code 137.
C16_Killed137 ==
    \E c \in Calls :
        /\ call[c].pc = "done"
        /\ call[c].result = "ok"
        /\ child[c].status = Some(SignalledBy(SIGKILL))
        /\ call[c].exit_code = 137

\* The bytes of the payload that are in the stdin pipe or were taken from it.
SentSoFar(c) == SubSeq(Request(c).stdin, 1, call[c].written)

\* C17: in a call that main's exit does not cut off, the join of the two
\* drains and the wait begins only in the step that closes stdin, with the
\* whole payload written; until then nothing of stdout or stderr is read, and
\* a call that returns from its stdin write returns a write or close error
\* and no output. The pipe holds the latest bytes written, in the payload's
\* order, and its write end closes only after the last byte (at once for an
\* empty payload) or once the child has closed its own end: a child that
\* reads sees the payload's bytes, then end-of-input.
C17_StdinBeforeJoin ==
    [][\A c \in Calls :
         /\ (call[c].pc # "join" /\ call'[c].pc = "join") =>
                /\ call[c].pc = "write"
                /\ Remaining(c) = 0
                /\ pipe[c].inW /\ ~pipe'[c].inW
         /\ call'[c].pc = "write" => (call'[c].out = <<>> /\ call'[c].err = <<>>)
         /\ (call[c].pc = "write" /\ call'[c].pc = "done") =>
                /\ call'[c].result \in {"err_write", "err_flush"}
                /\ call'[c].out = <<>> /\ call'[c].err = <<>>
         /\ (pipe[c].inW /\ ~pipe'[c].inW /\ call'[c].pc # "aborted") =>
                (Remaining(c) = 0 \/ ~pipe[c].inR)
         /\ (call'[c].pc \in {"write", "join"} /\ pipe'[c].inR) =>
                \E k \in 0..Len(SentSoFar(c)') :
                    pipe'[c].in = SubSeq(SentSoFar(c)', k + 1, Len(SentSoFar(c)'))]_vars

\* C17 witness: the call is at its join, and its child has read the one byte
\* of the payload and then the end of its input.
C17_ReadThenEof ==
    /\ call[1].pc = "join"
    /\ Request(1).stdin = Payload(1)
    /\ Prog(1) = <<"r", "r">>
    /\ child[1].st = "running"
    /\ child[1].ip = 3
    /\ ~pipe[1].inW

\* C18: a call at its join returns, with a response or with an error, only
\* when both drains have reached end-of-file and the wait has the child's
\* status.
C18_JoinWaitsForAll ==
    [][\A c \in Calls :
         (call[c].pc = "join" /\ call'[c].pc = "done") =>
             (StreamsReady(c) /\ WaitReady(c))]_vars

\* The children that have been spawned and have not ended.
Alive == {c \in Calls : child[c].st = "running"}

\* C19: with a limit N configured, at most N spawned children are alive.
C19_LiveChildrenBound == Limited => Cardinality(Alive) <= Limit

\* C20: the return of this run, with the drop of its SocketCleanup, never
\* removes the socket file the other run has bound and still serves on.
C20_ExitKeepsOthersSocket ==
    [][(rsPc # "returned" /\ rsPc' = "returned" /\ other = "serve" /\ file = "other")
           => file' = "other"]_vars

====
